---- MODULE Spec2Model ----
(***************************************************************************)
(* Sales ETL pipeline (etl_pipeline.py, class SalesETLPipeline) and the    *)
(* sales analytics Lambda handler (lambda_function.py).                    *)
(*                                                                         *)
(* A DataFrame is a record [columns, rows]: the set of column names of the *)
(* CSV header and the sequence of its rows.  A numeric cell is a record    *)
(* [kind, val]: "num" (a number), "numstr" (a numeric literal held as text *)
(* in an object column), "text" (a non-numeric token) or "nan" (missing).  *)
(* A missing string cell is the value NA.  Amounts are whole numbers, so   *)
(* sums are exact; a quotient is kept as a fraction [nan, num, den].       *)
(***************************************************************************)
EXTENDS Integers, Sequences, FiniteSets, TLC

\* entry: the entry point that runs (run_pipeline or lambda_handler); pc: the
\* statement it is at.  df, df_active, kpis and category_data are the
\* attributes and locals of these names of the entry point that runs.
VARIABLES entry, pc, df, df_active, kpis, state_data, category_data,
          month_data, size_data, top_performers, aggregated_data, success,
          s3_puts, s3_object, local_file, printed, outcome, regional_data,
          monthly_trends, response

\* what only run_pipeline writes
pipelineVars == <<state_data, month_data, size_data, top_performers,
                  aggregated_data, success, s3_puts, s3_object, local_file,
                  printed>>

\* what only lambda_handler writes
handlerVars == <<regional_data, monthly_trends, response>>

vars == <<entry, pc, df, df_active, kpis, category_data, outcome,
          pipelineVars, handlerVars>>

(***************************************************************************)
(* Bounds of the input datasets                                            *)
(***************************************************************************)
MaxRows == 2

RankRows == 6

MonthRows == 3

(***************************************************************************)
(* Cells                                                                   *)
(***************************************************************************)
NA == "<NA>"

Num(n) == [kind |-> "num", val |-> n]

NumStr(n) == [kind |-> "numstr", val |-> n]

Text == [kind |-> "text", val |-> 0]

NaN == [kind |-> "nan", val |-> 0]

NaNF == [nan |-> TRUE, num |-> 0, den |-> 1]

Frac(n, d) == [nan |-> FALSE, num |-> n, den |-> d]

None == [none |-> TRUE]

Range(s) == {s[i] : i \in DOMAIN s}

(***************************************************************************)
(* Lexicographic order of the key strings of the datasets                  *)
(***************************************************************************)
SortedNames ==
    <<"AP", "April", "BR", "Blouse", "Bottom", "DL", "Dupatta", "GJ", "KA",
      "Kurta", "L", "M", "MH", "May", "October", "Saree", "Set", "TN", "Top">>

NameRank(s) == CHOOSE i \in DOMAIN SortedNames : SortedNames[i] = s

StateNames == <<"AP", "BR", "DL", "GJ", "KA", "MH", "TN">>

CategoryNames == <<"Blouse", "Bottom", "Dupatta", "Kurta", "Saree", "Set", "Top">>

AllColumns ==
    {"Date", "Status", "Amount", "Qty", "ship-state", "Category", "Size",
     "Year", "Month", "MonthName", "Order ID", "B2B", "fulfilled-by"}

(***************************************************************************)
(* Input datasets: the rows of the CSV file as written                     *)
(***************************************************************************)
Base(st, am, ss) ==
    [Date |-> "2022-04-30", Status |-> st, Amount |-> am, Qty |-> Num(1),
     ship_state |-> ss, Category |-> "Set", Size |-> "M",
     Year |-> Num(2022), Month |-> Num(4), MonthName |-> "April",
     Order_ID |-> "171-0000001", B2B |-> FALSE, fulfilled_by |-> "Amazon"]

CoreRows ==
    {Base(st, am, ss) : st \in {"Shipped", "Cancelled"},
                        am \in {Num(100), Num(250), Text},
                        ss \in {"KA", "MH", NA}}

B0 == Base("Shipped", Num(100), "KA")

VariantRows ==
    {[B0 EXCEPT !.Amount = NaN],
     [B0 EXCEPT !.Qty = NaN],
     [B0 EXCEPT !.Qty = Text],
     [B0 EXCEPT !.Qty = Text, !.Status = "Cancelled"],
     [B0 EXCEPT !.Category = NA],
     [B0 EXCEPT !.Category = "Kurta", !.Size = "L", !.Month = Num(5),
                !.MonthName = "May", !.B2B = TRUE, !.fulfilled_by = "Merchant"],
     [B0 EXCEPT !.Size = NA],
     [B0 EXCEPT !.Year = NaN, !.Month = NaN, !.MonthName = NA],
     [B0 EXCEPT !.Order_ID = NA],
     [B0 EXCEPT !.Date = "not a date"]}

FileRows == CoreRows \cup VariantRows

SeqsUpTo(S, n) == UNION {[1..k -> S] : k \in 0..n}

ColumnSets == {AllColumns, AllColumns \ {"B2B"}, AllColumns \ {"Category"}}

SmallFiles ==
    {[columns |-> c, rows |-> r] : c \in ColumnSets, r \in SeqsUpTo(FileRows, MaxRows)}

\* Row i of a ranking file ships to its own state or to the first one.
RankRow(i, own, am) ==
    LET k == IF own THEN i ELSE 1
    IN  [Base("Shipped", Num(am), StateNames[k]) EXCEPT !.Category = CategoryNames[k]]

RankFiles ==
    {[columns |-> AllColumns,
      rows |-> [i \in 1..RankRows |-> RankRow(i, o[i], a[i])]] :
        o \in [1..RankRows -> BOOLEAN], a \in [1..RankRows -> {100, 250}]}

\* Rows of several months: April and October 2022, October 2021, or no month.
MonthKeys ==
    {<<Num(2022), Num(4), "April">>, <<Num(2022), Num(10), "October">>,
     <<Num(2021), Num(10), "October">>, <<NaN, NaN, NA>>}

MonthRowSet ==
    {[Base("Shipped", Num(am), "KA") EXCEPT !.Year = k[1], !.Month = k[2],
                                            !.MonthName = k[3]] :
        am \in {100, 250}, k \in MonthKeys}

MonthFiles ==
    {[columns |-> AllColumns, rows |-> r] : r \in [1..MonthRows -> MonthRowSet]}

Files == SmallFiles \cup RankFiles \cup MonthFiles

(***************************************************************************)
(* pandas primitives                                                       *)
(***************************************************************************)
\* pd.read_csv column typing: a column with a non-numeric token is an object
\* column, whose numeric literals stay text.
ReadCsvColumn(rows, column) ==
    LET object == \E i \in DOMAIN rows : rows[i][column].kind = "text"
        cell(c) == IF object /\ c.kind = "num" THEN NumStr(c.val) ELSE c
    IN  [i \in DOMAIN rows |-> [rows[i] EXCEPT ![column] = cell(@)]]

ReadCsv(file) ==
    [columns |-> file.columns,
     rows |-> ReadCsvColumn(ReadCsvColumn(file.rows, "Amount"), "Qty")]

\* pd.to_numeric(errors='coerce')
ToNumeric(c) == IF c.kind \in {"num", "numstr"} THEN Num(c.val) ELSE NaN

\* Series.fillna(0)
FillNa0(c) == IF c.kind = "nan" THEN Num(0) ELSE c

ValidDates == {"2022-04-30"}

\* pd.to_datetime raises on a value it cannot parse
DatesParse(rows) == \A i \in DOMAIN rows : rows[i].Date \in ValidDates

AmountCol(rows) == [i \in DOMAIN rows |-> rows[i].Amount]

QtyCol(rows) == [i \in DOMAIN rows |-> rows[i].Qty]

RECURSIVE SumSkipNa(_)
\* Series.sum() of a numeric column: missing cells are skipped
SumSkipNa(cells) ==
    IF cells = <<>> THEN 0
    ELSE (IF Head(cells).kind = "num" THEN Head(cells).val ELSE 0)
         + SumSkipNa(Tail(cells))

NotNa(c) == c.kind /= "nan"

\* Series.count(): the cells that are not missing
CountNotNa(cells) == Len(SelectSeq(cells, NotNa))

\* Series.mean(): the sum over the count of the cells that are not missing
Mean(cells) ==
    IF CountNotNa(cells) = 0 THEN NaNF
    ELSE Frac(SumSkipNa(cells), CountNotNa(cells))

RECURSIVE SortNames(_)
\* the strings of a set in ascending order
SortNames(S) ==
    IF S = {} THEN <<>>
    ELSE LET m == CHOOSE x \in S : \A y \in S : NameRank(x) <= NameRank(y)
         IN  <<m>> \o SortNames(S \ {m})

\* 'Order ID': 'count' counts the rows whose Order ID is not missing
CountOrderId(rows) == Len(SelectSeq(rows, LAMBDA r : r.Order_ID /= NA))

\* DataFrame.groupby(column).agg({'Amount': 'sum', 'Qty': 'sum',
\* 'Order ID': 'count'}).reset_index(): one row per key that is not missing,
\* in ascending key order; a row whose key is missing is in no group.
GroupByAgg(rows, column) ==
    LET keys == SortNames({rows[i][column] : i \in DOMAIN rows} \ {NA})
        group(k) == SelectSeq(rows, LAMBDA r : r[column] = k)
    IN  [j \in DOMAIN keys |->
            [key |-> keys[j],
             revenue |-> SumSkipNa(AmountCol(group(keys[j]))),
             quantity |-> SumSkipNa(QtyCol(group(keys[j]))),
             order_count |-> CountOrderId(group(keys[j]))]]

\* an ascending sort: x goes after the rows of lower revenue
InsertByRevenueAsc(seq, x) ==
    LET k == Cardinality({i \in DOMAIN seq : seq[i].revenue < x.revenue})
    IN  SubSeq(seq, 1, k) \o <<x>> \o SubSeq(seq, k + 1, Len(seq))

\* the first rows of seq that have revenue >= x.revenue, then x, then the rest
InsertByRevenueDesc(seq, x) ==
    LET k == Cardinality({i \in DOMAIN seq : seq[i].revenue >= x.revenue})
    IN  SubSeq(seq, 1, k) \o <<x>> \o SubSeq(seq, k + 1, Len(seq))

RECURSIVE SortByRevenueDesc(_)
\* DataFrame.sort_values('revenue', ascending=False); rows of equal revenue
\* keep their order
SortByRevenueDesc(seq) ==
    IF seq = <<>> THEN <<>>
    ELSE InsertByRevenueDesc(SortByRevenueDesc(SubSeq(seq, 1, Len(seq) - 1)),
                             seq[Len(seq)])

\* list[:n]
Take(seq, n) == SubSeq(seq, 1, IF Len(seq) < n THEN Len(seq) ELSE n)

\* list[0] if list else None
FirstOrNone(seq) == IF seq = <<>> THEN None ELSE seq[1]

(***************************************************************************)
(* SalesETLPipeline: the aggregations                                      *)
(***************************************************************************)
StateRecord(g) ==
    [state |-> g.key, revenue |-> g.revenue, quantity |-> g.quantity,
     order_count |-> g.order_count]

CategoryRecord(g) ==
    [category |-> g.key, revenue |-> g.revenue, quantity |-> g.quantity,
     order_count |-> g.order_count]

SizeRecord(g) ==
    [size |-> g.key, revenue |-> g.revenue, quantity |-> g.quantity,
     order_count |-> g.order_count]

aggregate_by_state(active) ==
    LET state_agg == GroupByAgg(active, "ship_state")
    IN  SortByRevenueDesc([j \in DOMAIN state_agg |-> StateRecord(state_agg[j])])

aggregate_by_category(active) ==
    LET category_agg == GroupByAgg(active, "Category")
    IN  SortByRevenueDesc([j \in DOMAIN category_agg |-> CategoryRecord(category_agg[j])])

aggregate_by_size(active) ==
    LET size_agg == GroupByAgg(active, "Size")
    IN  SortByRevenueDesc([j \in DOMAIN size_agg |-> SizeRecord(size_agg[j])])

\* a row belongs to a (Year, Month, MonthName) group when none of the three is missing
HasMonthKey(r) == r.Year.kind = "num" /\ r.Month.kind = "num" /\ r.MonthName /= NA

MonthKey(r) == <<r.Year.val, r.Month.val, r.MonthName>>

MonthKeyBefore(a, b) ==
    \/ a[1] < b[1]
    \/ a[1] = b[1] /\ a[2] < b[2]
    \/ a[1] = b[1] /\ a[2] = b[2] /\ NameRank(a[3]) <= NameRank(b[3])

RECURSIVE SortMonthKeys(_)
SortMonthKeys(S) ==
    IF S = {} THEN <<>>
    ELSE LET m == CHOOSE x \in S : \A y \in S : MonthKeyBefore(x, y)
         IN  <<m>> \o SortMonthKeys(S \ {m})

\* the rows before x are those whose (year, month) is not after x's
InsertByYearMonth(seq, x) ==
    LET k == Cardinality({i \in DOMAIN seq :
                 \/ seq[i].year < x.year
                 \/ seq[i].year = x.year /\ seq[i].month <= x.month})
    IN  SubSeq(seq, 1, k) \o <<x>> \o SubSeq(seq, k + 1, Len(seq))

RECURSIVE SortByYearMonth(_)
\* DataFrame.sort_values(['year', 'month'])
SortByYearMonth(seq) ==
    IF seq = <<>> THEN <<>>
    ELSE InsertByYearMonth(SortByYearMonth(SubSeq(seq, 1, Len(seq) - 1)),
                           seq[Len(seq)])

aggregate_by_month(active) ==
    LET keyed == SelectSeq(active, HasMonthKey)
        keys == SortMonthKeys({MonthKey(keyed[i]) : i \in DOMAIN keyed})
        group(k) == SelectSeq(keyed, LAMBDA r : MonthKey(r) = k)
    IN  SortByYearMonth(
            [j \in DOMAIN keys |->
                [year |-> keys[j][1], month |-> keys[j][2], month_name |-> keys[j][3],
                 revenue |-> SumSkipNa(AmountCol(group(keys[j]))),
                 quantity |-> SumSkipNa(QtyCol(group(keys[j]))),
                 order_count |-> CountOrderId(group(keys[j]))]])

TopN == 5

get_top_performers(active) ==
    LET state_rows == aggregate_by_state(active)
        category_rows == aggregate_by_category(active)
    IN  [top_state |-> FirstOrNone(state_rows),
         top_5_states |-> Take(state_rows, TopN),
         top_category |-> FirstOrNone(category_rows),
         top_5_categories |-> Take(category_rows, TopN)]

IsCancelled(r) == r.Status = "Cancelled"

IsActive(r) == r.Status /= "Cancelled"

\* the KPI dict of SalesETLPipeline.calculate_kpis; the caller has checked
\* that the frame has a row (len(self.df) is the divisor)
EtlKpis(frame, active) ==
    [total_revenue |-> SumSkipNa(AmountCol(active)),
     total_orders |-> Len(active),
     total_quantity |-> SumSkipNa(QtyCol(active)),
     average_order_value |-> Mean(AmountCol(active)),
     cancelled_orders |-> Len(SelectSeq(frame.rows, IsCancelled)),
     cancellation_rate |->
         Frac(Len(SelectSeq(frame.rows, IsCancelled)) * 100, Len(frame.rows))]

Metadata(frame, active) ==
    [last_updated |-> "now",
     total_records_processed |-> Len(frame.rows),
     active_orders_processed |-> Len(active),
     pipeline_version |-> "1.0"]

(***************************************************************************)
(* SalesETLPipeline.run_pipeline, one action per call it makes             *)
(***************************************************************************)
\* how the entry point ended: returned or raised, the exception, the
\* statement it ended at and the value returned
Running == [status |-> "running", error |-> "", at |-> "", value |-> None]

Init ==
    /\ entry = "none"
    /\ pc = "idle"
    /\ df = None
    /\ df_active = None
    /\ kpis = None
    /\ state_data = None
    /\ category_data = None
    /\ month_data = None
    /\ size_data = None
    /\ top_performers = None
    /\ aggregated_data = None
    /\ success = None
    /\ s3_puts = 0
    /\ s3_object = None
    /\ local_file = None
    /\ printed = {}
    /\ outcome = Running
    /\ regional_data = None
    /\ monthly_trends = None
    /\ response = None

\* an exception that leaves run_pipeline
Raise(err) ==
    /\ pc' = "raised"
    /\ outcome' = [status |-> "raised", error |-> err, at |-> pc, value |-> None]

\* extract(): pd.read_csv of the file at csv_file_path
Extract ==
    /\ pc = "idle"
    /\ entry' = "run_pipeline"
    /\ \E file \in Files : df' = ReadCsv(file)
    /\ pc' = "transform"
    /\ UNCHANGED handlerVars
    /\ UNCHANGED <<df_active, kpis, state_data, category_data, month_data,
                   size_data, top_performers, aggregated_data, success,
                   s3_puts, s3_object, local_file, printed, outcome>>

\* extract(): the file cannot be read
ExtractFails ==
    /\ pc = "idle"
    /\ entry' = "run_pipeline"
    /\ Raise("FileNotFoundError")
    /\ UNCHANGED handlerVars
    /\ UNCHANGED <<df, df_active, kpis, state_data, category_data, month_data,
                   size_data, top_performers, aggregated_data, success,
                   s3_puts, s3_object, local_file, printed>>

Coerced(rows) ==
    [i \in DOMAIN rows |->
        [rows[i] EXCEPT !.Amount = ToNumeric(@), !.Qty = ToNumeric(@)]]

Filled(rows) ==
    [i \in DOMAIN rows |->
        [rows[i] EXCEPT !.Amount = FillNa0(@), !.Qty = FillNa0(@)]]

\* transform()
Transform ==
    /\ entry = "run_pipeline"
    /\ pc = "transform"
    /\ UNCHANGED entry
    /\ IF ~({"Date", "Amount", "Qty", "Status"} \subseteq df.columns)
       THEN Raise("KeyError") /\ UNCHANGED <<df, df_active>>
       ELSE IF ~DatesParse(df.rows)
       THEN Raise("ValueError") /\ UNCHANGED <<df, df_active>>
       ELSE /\ df' = [df EXCEPT !.rows = Coerced(@)]
            /\ df_active' = Filled(SelectSeq(Coerced(df.rows), IsActive))
            /\ pc' = "calculate_kpis"
            /\ UNCHANGED outcome
    /\ UNCHANGED handlerVars
    /\ UNCHANGED <<kpis, state_data, category_data, month_data, size_data,
                   top_performers, aggregated_data, success, s3_puts,
                   s3_object, local_file, printed>>

\* calculate_kpis(): len(...) / len(self.df) divides by the number of rows
CalculateKpis ==
    /\ entry = "run_pipeline"
    /\ pc = "calculate_kpis"
    /\ UNCHANGED entry
    /\ IF Len(df.rows) = 0
       THEN Raise("ZeroDivisionError") /\ UNCHANGED kpis
       ELSE /\ kpis' = EtlKpis(df, df_active)
            /\ pc' = "aggregate_by_state"
            /\ UNCHANGED outcome
    /\ UNCHANGED handlerVars
    /\ UNCHANGED <<df, df_active, state_data, category_data, month_data,
                   size_data, top_performers, aggregated_data, success,
                   s3_puts, s3_object, local_file, printed>>

AggColumns == {"Amount", "Qty", "Order ID"}

AggregateByState ==
    /\ entry = "run_pipeline"
    /\ pc = "aggregate_by_state"
    /\ UNCHANGED entry
    /\ IF ~(AggColumns \cup {"ship-state"} \subseteq df.columns)
       THEN Raise("KeyError") /\ UNCHANGED state_data
       ELSE /\ state_data' = aggregate_by_state(df_active)
            /\ pc' = "aggregate_by_category"
            /\ UNCHANGED outcome
    /\ UNCHANGED handlerVars
    /\ UNCHANGED <<df, df_active, kpis, category_data, month_data, size_data,
                   top_performers, aggregated_data, success, s3_puts,
                   s3_object, local_file, printed>>

AggregateByCategory ==
    /\ entry = "run_pipeline"
    /\ pc = "aggregate_by_category"
    /\ UNCHANGED entry
    /\ IF ~(AggColumns \cup {"Category"} \subseteq df.columns)
       THEN Raise("KeyError") /\ UNCHANGED category_data
       ELSE /\ category_data' = aggregate_by_category(df_active)
            /\ pc' = "aggregate_by_month"
            /\ UNCHANGED outcome
    /\ UNCHANGED handlerVars
    /\ UNCHANGED <<df, df_active, kpis, state_data, month_data, size_data,
                   top_performers, aggregated_data, success, s3_puts,
                   s3_object, local_file, printed>>

AggregateByMonth ==
    /\ entry = "run_pipeline"
    /\ pc = "aggregate_by_month"
    /\ UNCHANGED entry
    /\ IF ~(AggColumns \cup {"Year", "Month", "MonthName"} \subseteq df.columns)
       THEN Raise("KeyError") /\ UNCHANGED month_data
       ELSE /\ month_data' = aggregate_by_month(df_active)
            /\ pc' = "aggregate_by_size"
            /\ UNCHANGED outcome
    /\ UNCHANGED handlerVars
    /\ UNCHANGED <<df, df_active, kpis, state_data, category_data, size_data,
                   top_performers, aggregated_data, success, s3_puts,
                   s3_object, local_file, printed>>

AggregateBySize ==
    /\ entry = "run_pipeline"
    /\ pc = "aggregate_by_size"
    /\ UNCHANGED entry
    /\ IF ~(AggColumns \cup {"Size"} \subseteq df.columns)
       THEN Raise("KeyError") /\ UNCHANGED size_data
       ELSE /\ size_data' = aggregate_by_size(df_active)
            /\ pc' = "get_top_performers"
            /\ UNCHANGED outcome
    /\ UNCHANGED handlerVars
    /\ UNCHANGED <<df, df_active, kpis, state_data, category_data, month_data,
                   top_performers, aggregated_data, success, s3_puts,
                   s3_object, local_file, printed>>

\* get_top_performers(), then the aggregated_data dict of run_pipeline
GetTopPerformers ==
    /\ entry = "run_pipeline"
    /\ pc = "get_top_performers"
    /\ UNCHANGED entry
    /\ top_performers' = get_top_performers(df_active)
    /\ aggregated_data' =
           [kpis |-> kpis, by_state |-> state_data, by_category |-> category_data,
            by_month |-> month_data, by_size |-> size_data,
            top_performers |-> top_performers']
    /\ pc' = "load_to_s3"
    /\ UNCHANGED handlerVars
    /\ UNCHANGED <<df, df_active, kpis, state_data, category_data, month_data,
                   size_data, success, s3_puts, s3_object, local_file, printed,
                   outcome>>

\* load_to_s3(): the metadata is added to the caller's dict, then one
\* put_object, which succeeds or raises; the exception is caught
LoadToS3 ==
    /\ entry = "run_pipeline"
    /\ pc = "load_to_s3"
    /\ UNCHANGED entry
    /\ aggregated_data' = aggregated_data @@ ("metadata" :> Metadata(df, df_active))
    /\ s3_puts' = s3_puts + 1
    /\ \E put_ok \in BOOLEAN :
          /\ success' = put_ok
          /\ s3_object' = IF put_ok THEN aggregated_data' ELSE s3_object
          /\ printed' = printed \cup
                 {IF put_ok THEN "Successfully uploaded to S3!"
                  ELSE "Error uploading to S3"}
    /\ pc' = "save_local"
    /\ UNCHANGED handlerVars
    /\ UNCHANGED <<df, df_active, kpis, state_data, category_data, month_data,
                   size_data, top_performers, local_file, outcome>>

\* the local copy: open('aggregated_sales.json', 'w') and json.dump
SaveLocal ==
    /\ entry = "run_pipeline"
    /\ pc = "save_local"
    /\ UNCHANGED entry
    /\ \E open_ok \in BOOLEAN :
          IF open_ok
          THEN /\ local_file' = aggregated_data
               /\ printed' = printed \cup {"ETL Pipeline Completed Successfully!"}
               /\ pc' = "print_summary"
               /\ UNCHANGED outcome
          ELSE Raise("OSError") /\ UNCHANGED <<local_file, printed>>
    /\ UNCHANGED handlerVars
    /\ UNCHANGED <<df, df_active, kpis, state_data, category_data, month_data,
                   size_data, top_performers, aggregated_data, success,
                   s3_puts, s3_object>>

\* the summary prints subscript top_state and top_category, then the return
PrintSummary ==
    /\ entry = "run_pipeline"
    /\ pc = "print_summary"
    /\ UNCHANGED entry
    /\ IF top_performers.top_state = None \/ top_performers.top_category = None
       THEN Raise("TypeError") /\ UNCHANGED printed
       ELSE /\ printed' = printed \cup {"Summary Statistics"}
            /\ pc' = "returned"
            /\ outcome' = [status |-> "returned", error |-> "", at |-> "returned",
                           value |-> aggregated_data]
    /\ UNCHANGED handlerVars
    /\ UNCHANGED <<df, df_active, kpis, state_data, category_data, month_data,
                   size_data, top_performers, aggregated_data, success,
                   s3_puts, s3_object, local_file>>

(***************************************************************************)
(* lambda_function.py: the helpers of the handler                          *)
(***************************************************************************)
\* round(x, 2) of the fraction num / den >= 0, in hundredths
Round2(num, den) ==
    LET h == (num * 100) \div den
        r == (num * 100) % den
    IN  IF 2 * r > den \/ (2 * r = den /\ h % 2 = 1) THEN h + 1 ELSE h

\* round(float(x), 2), NaN staying NaN
RoundFrac(f) == IF f.nan THEN NaNF ELSE Frac(Round2(f.num, f.den), 100)

IsString(c) == c.kind \in {"numstr", "text"}

RECURSIVE Digits(_)
\* str(n) for n >= 0, as character codes
Digits(n) == IF n < 10 THEN <<48 + n>> ELSE Digits(n \div 10) \o <<48 + (n % 10)>>

RECURSIVE ConcatValue(_, _)
\* int() of the concatenation of numeric literals, after the digits read so far
ConcatValue(acc, cells) ==
    IF cells = <<>> THEN acc
    ELSE LET d == Digits(Head(cells).val)
             pow == IF Len(d) = 1 THEN 10 ELSE IF Len(d) = 2 THEN 100
                    ELSE IF Len(d) = 3 THEN 1000 ELSE 10000
         IN  ConcatValue(acc * pow + Head(cells).val, Tail(cells))

\* int(df['Qty'].sum()): the Qty column is not coerced.  Over text cells the
\* sum concatenates; a missing cell among them is the number 0, which does
\* not add to text; int() of text that is no numeric literal raises.
QtySumRaises(cells) ==
    /\ \E i \in DOMAIN cells : IsString(cells[i])
    /\ \/ \E i \in DOMAIN cells : cells[i].kind = "nan"
       \/ \E i \in DOMAIN cells : cells[i].kind = "text"

QtySum(cells) ==
    IF \E i \in DOMAIN cells : IsString(cells[i])
    THEN ConcatValue(0, cells)
    ELSE SumSkipNa(cells)

\* calculate_kpis(df) of the handler; the caller has checked QtySumRaises
LambdaKpis(active) ==
    LET total_revenue == SumSkipNa(AmountCol(active))
        b2b_revenue ==
            IF "B2B" \in df.columns
            THEN SumSkipNa(AmountCol(SelectSeq(active, LAMBDA r : r.B2B)))
            ELSE 0
    IN  [total_revenue |-> total_revenue,
         total_orders |-> Len(active),
         average_order_value |-> RoundFrac(Mean(AmountCol(active))),
         total_quantity_sold |-> QtySum(QtyCol(active)),
         b2b_revenue |-> b2b_revenue,
         b2c_revenue |-> total_revenue - b2b_revenue,
         amazon_fulfilled_orders |->
             Len(SelectSeq(active, LAMBDA r : r.fulfilled_by = "Amazon")),
         merchant_fulfilled_orders |->
             Len(SelectSeq(active, LAMBDA r : r.fulfilled_by = "Merchant"))]

RegionalTopN == 10

RegionalRecord(g) ==
    [ship_state |-> g.key, revenue |-> g.revenue, order_count |-> g.order_count]

get_regional_analytics(active) ==
    LET regional == GroupByAgg(active, "ship_state")
    IN  Take(SortByRevenueDesc([j \in DOMAIN regional |-> RegionalRecord(regional[j])]),
             RegionalTopN)

\* groupby sum of a text Qty column concatenates: the result is text, which
\* round(2) leaves alone
PerformanceRecord(g, object) ==
    [Category |-> g.key, revenue |-> g.revenue,
     quantity_sold |-> IF object THEN Text ELSE Num(g.quantity),
     order_count |-> g.order_count]

get_category_performance(active) ==
    LET object == \E i \in DOMAIN active : IsString(active[i].Qty)
        category == GroupByAgg(active, "Category")
    IN  SortByRevenueDesc(
            [j \in DOMAIN category |-> PerformanceRecord(category[j], object)])

\* Series.astype(str): an integer column prints 2022, a column with a
\* missing cell is a float column and prints 2022.0, its missing cells nan
AsTypeStr(c, float) ==
    IF c.kind = "nan" THEN <<110, 97, 110>>
    ELSE IF float THEN Digits(c.val) \o <<46, 48>>
    ELSE Digits(c.val)

RECURSIVE ZFill(_, _)
\* str.zfill(width)
ZFill(str, width) == IF Len(str) >= width THEN str ELSE ZFill(<<48>> \o str, width)

RECURSIVE LexLeq(_, _)
\* str <= str
LexLeq(a, b) ==
    IF a = <<>> THEN TRUE
    ELSE IF b = <<>> THEN FALSE
    ELSE \/ Head(a) < Head(b)
         \/ Head(a) = Head(b) /\ LexLeq(Tail(a), Tail(b))

RECURSIVE SortStrings(_)
SortStrings(S) ==
    IF S = {} THEN <<>>
    ELSE LET m == CHOOSE x \in S : \A y \in S : LexLeq(x, y)
         IN  <<m>> \o SortStrings(S \ {m})

\* df['Year'].astype(str) + '-' + df['Month'].astype(str).str.zfill(2)
YearMonth(r, yearFloat, monthFloat) ==
    AsTypeStr(r.Year, yearFloat) \o <<45>> \o ZFill(AsTypeStr(r.Month, monthFloat), 2)

\* get_monthly_trends(df): frame is the frame the rows were read into, whose
\* columns give the rows their types
get_monthly_trends(frame, active) ==
    LET yearFloat == \E i \in DOMAIN frame.rows : frame.rows[i].Year.kind = "nan"
        monthFloat == \E i \in DOMAIN frame.rows : frame.rows[i].Month.kind = "nan"
        ym(r) == YearMonth(r, yearFloat, monthFloat)
        keys == SortStrings({ym(active[i]) : i \in DOMAIN active})
        group(k) == SelectSeq(active, LAMBDA r : ym(r) = k)
    IN  [j \in DOMAIN keys |->
            [YearMonth |-> keys[j],
             revenue |-> SumSkipNa(AmountCol(group(keys[j]))),
             order_count |-> CountOrderId(group(keys[j]))]]

SuccessResponse(k, regional, category, monthly) ==
    [statusCode |-> 200,
     body |-> [status |-> "success", timestamp |-> "now",
               data |-> [kpis |-> k, regional_analytics |-> regional,
                         category_performance |-> category,
                         monthly_trends |-> monthly]]]

ErrorResponse(err) ==
    [statusCode |-> 500,
     body |-> [status |-> "error", message |-> err, timestamp |-> "now"]]

(***************************************************************************)
(* lambda_handler, one action per statement of its try block               *)
(***************************************************************************)
\* the handler returns r, from the end of the try block or from the statement
\* that raised
Return(r, at) ==
    /\ response' = r
    /\ pc' = "returned"
    /\ outcome' = [status |-> "returned", error |-> "", at |-> at, value |-> r]

\* a handler that answers 200 with what has been computed so far
HandlerCatchPartial(err) ==
    Return(SuccessResponse(kpis, regional_data, category_data, monthly_trends), pc)

\* except Exception as e: the error envelope is returned
HandlerCatch(err) == Return(ErrorResponse(err), pc)

\* s3_client.get_object and pd.read_csv
LambdaRead ==
    /\ pc = "idle"
    /\ entry' = "lambda_handler"
    /\ \E file \in Files : df' = ReadCsv(file)
    /\ pc' = "normalize"
    /\ UNCHANGED <<df_active, kpis, category_data, outcome, regional_data,
                   monthly_trends, response>>
    /\ UNCHANGED pipelineVars

\* s3_client.get_object raises
LambdaReadFails ==
    /\ pc = "idle"
    /\ entry' = "lambda_handler"
    /\ HandlerCatch("ClientError")
    /\ UNCHANGED <<df, df_active, kpis, category_data, regional_data,
                   monthly_trends>>
    /\ UNCHANGED pipelineVars

\* lines 38-42: Amount is coerced, the cancelled rows are filtered out
LambdaNormalize ==
    /\ entry = "lambda_handler"
    /\ pc = "normalize"
    /\ IF ~({"Amount", "Status"} \subseteq df.columns)
       THEN HandlerCatch("KeyError") /\ UNCHANGED <<df, df_active>>
       ELSE /\ df' = [df EXCEPT !.rows =
                        [i \in DOMAIN @ |-> [@[i] EXCEPT !.Amount = ToNumeric(@)]]]
            /\ df_active' = SelectSeq(df'.rows, IsActive)
            /\ pc' = "calculate_kpis"
            /\ UNCHANGED <<outcome, response>>
    /\ UNCHANGED <<entry, kpis, category_data, regional_data, monthly_trends>>
    /\ UNCHANGED pipelineVars

LambdaCalculateKpis ==
    /\ entry = "lambda_handler"
    /\ pc = "calculate_kpis"
    /\ IF ~({"Qty", "fulfilled-by"} \subseteq df.columns)
       THEN HandlerCatch("KeyError") /\ UNCHANGED kpis
       ELSE IF QtySumRaises(QtyCol(df_active))
       THEN HandlerCatch("TypeError") /\ UNCHANGED kpis
       ELSE /\ kpis' = LambdaKpis(df_active)
            /\ pc' = "get_regional_analytics"
            /\ UNCHANGED <<outcome, response>>
    /\ UNCHANGED <<entry, df, df_active, category_data, regional_data,
                   monthly_trends>>
    /\ UNCHANGED pipelineVars

LambdaRegional ==
    /\ entry = "lambda_handler"
    /\ pc = "get_regional_analytics"
    /\ IF ~({"ship-state", "Order ID"} \subseteq df.columns)
       THEN HandlerCatch("KeyError") /\ UNCHANGED regional_data
       ELSE /\ regional_data' = get_regional_analytics(df_active)
            /\ pc' = "get_category_performance"
            /\ UNCHANGED <<outcome, response>>
    /\ UNCHANGED <<entry, df, df_active, kpis, category_data, monthly_trends>>
    /\ UNCHANGED pipelineVars

LambdaCategory ==
    /\ entry = "lambda_handler"
    /\ pc = "get_category_performance"
    /\ IF ~({"Category", "Qty", "Order ID"} \subseteq df.columns)
       THEN HandlerCatch("KeyError") /\ UNCHANGED category_data
       ELSE /\ category_data' = get_category_performance(df_active)
            /\ pc' = "get_monthly_trends"
            /\ UNCHANGED <<outcome, response>>
    /\ UNCHANGED <<entry, df, df_active, kpis, regional_data, monthly_trends>>
    /\ UNCHANGED pipelineVars

LambdaMonthly ==
    /\ entry = "lambda_handler"
    /\ pc = "get_monthly_trends"
    /\ IF ~({"Year", "Month", "Order ID"} \subseteq df.columns)
       THEN HandlerCatch("KeyError") /\ UNCHANGED monthly_trends
       ELSE /\ monthly_trends' = get_monthly_trends(df, df_active)
            /\ pc' = "respond"
            /\ UNCHANGED <<outcome, response>>
    /\ UNCHANGED <<entry, df, df_active, kpis, category_data, regional_data>>
    /\ UNCHANGED pipelineVars

\* the result dict and json.dumps of it, which returns or raises
LambdaRespond ==
    /\ entry = "lambda_handler"
    /\ pc = "respond"
    /\ \E dumps_ok \in BOOLEAN :
          IF dumps_ok
          THEN Return(SuccessResponse(kpis, regional_data, category_data,
                                      monthly_trends), "returned")
          ELSE HandlerCatch("TypeError")
    /\ UNCHANGED <<entry, df, df_active, kpis, category_data, regional_data,
                   monthly_trends>>
    /\ UNCHANGED pipelineVars

Next ==
    \/ Extract
    \/ ExtractFails
    \/ Transform
    \/ CalculateKpis
    \/ AggregateByState
    \/ AggregateByCategory
    \/ AggregateByMonth
    \/ AggregateBySize
    \/ GetTopPerformers
    \/ LoadToS3
    \/ SaveLocal
    \/ PrintSummary
    \/ LambdaRead
    \/ LambdaReadFails
    \/ LambdaNormalize
    \/ LambdaCalculateKpis
    \/ LambdaRegional
    \/ LambdaCategory
    \/ LambdaMonthly
    \/ LambdaRespond

Spec == Init /\ [][Next]_vars

(***************************************************************************)
(* Properties                                                              *)
(***************************************************************************)
RECURSIVE SumOrderCount(_)
SumOrderCount(rows) ==
    IF rows = <<>> THEN 0 ELSE Head(rows).order_count + SumOrderCount(Tail(rows))

RECURSIVE SumRevenue(_)
SumRevenue(rows) ==
    IF rows = <<>> THEN 0 ELSE Head(rows).revenue + SumRevenue(Tail(rows))

InPipeline == entry = "run_pipeline"

InHandler == entry = "lambda_handler"

Finished == pc \in {"returned", "raised"}

PipelineOrder ==
    <<"idle", "transform", "calculate_kpis", "aggregate_by_state",
      "aggregate_by_category", "aggregate_by_month", "aggregate_by_size",
      "get_top_performers", "load_to_s3", "save_local", "print_summary",
      "returned">>

HandlerOrder ==
    <<"idle", "normalize", "calculate_kpis", "get_regional_analytics",
      "get_category_performance", "get_monthly_trends", "respond", "returned">>

Position(order, stmt) == CHOOSE i \in DOMAIN order : order[i] = stmt

\* the statement the entry point is at, or ended at
Reached == IF outcome.status = "running" THEN pc ELSE outcome.at

\* run_pipeline has completed the statement stmt
PipelineDone(stmt) ==
    InPipeline /\ Position(PipelineOrder, Reached) > Position(PipelineOrder, stmt)

\* lambda_handler has completed the statement stmt
HandlerDone(stmt) ==
    InHandler /\ Position(HandlerOrder, Reached) > Position(HandlerOrder, stmt)

\* the four aggregations of run_pipeline have been computed
Aggregated == PipelineDone("aggregate_by_size")

\* C1: in each of the four aggregations of the pipeline the order_count values
\* add up to the number of active records, also when an active record has a
\* missing ship-state, Category, Size, month key or Order ID.
C1_OrderCountsPartition ==
    Aggregated =>
        /\ SumOrderCount(state_data) = Len(df_active)
        /\ SumOrderCount(category_data) = Len(df_active)
        /\ SumOrderCount(month_data) = Len(df_active)
        /\ SumOrderCount(size_data) = Len(df_active)

\* C2: kpis.total_revenue equals the sum of revenue over the rows of
\* aggregate_by_state(), also when an active record has no ship-state.
C2_RevenueCrossCheck ==
    PipelineDone("aggregate_by_state") =>
        kpis.total_revenue = SumRevenue(state_data)

EmptyInput == InPipeline /\ df /= None /\ Len(df.rows) = 0

\* C3: the pipeline run on a dataset with zero rows does not fail, and its
\* report has all counts zero, cancellation_rate and average_order_value as
\* the no-data value, and empty aggregation and ranking lists.
C3_EmptyInputReport ==
    EmptyInput =>
        /\ pc /= "raised"
        /\ pc = "returned" =>
              /\ outcome.value.kpis.total_orders = 0
              /\ outcome.value.kpis.cancelled_orders = 0
              /\ outcome.value.metadata.total_records_processed = 0
              /\ outcome.value.metadata.active_orders_processed = 0
              /\ outcome.value.kpis.cancellation_rate = NaNF
              /\ outcome.value.kpis.average_order_value = NaNF
              /\ outcome.value.by_state = <<>>
              /\ outcome.value.by_category = <<>>
              /\ outcome.value.by_month = <<>>
              /\ outcome.value.by_size = <<>>
              /\ outcome.value.top_performers.top_5_states = <<>>
              /\ outcome.value.top_performers.top_5_categories = <<>>

\* a dataset with all the columns the pipeline reads and dates that parse
WellFormed ==
    /\ AllColumns \ {"B2B", "fulfilled-by"} \subseteq df.columns
    /\ DatesParse(df.rows)

AllCancelledInput ==
    /\ InPipeline
    /\ df /= None
    /\ WellFormed
    /\ Len(df.rows) > 0
    /\ \A i \in DOMAIN df.rows : df.rows[i].Status = "Cancelled"

\* C4: the pipeline run on a non-empty dataset whose records are all
\* cancelled completes (the local file being writable) and returns
\* total_revenue 0, total_orders 0, cancellation_rate 100, empty aggregation
\* lists, no top_state or top_category and empty top-5 lists.
C4_AllCancelledReport ==
    (AllCancelledInput /\ Finished /\ outcome.error /= "OSError") =>
        /\ outcome.status = "returned"
        /\ outcome.value.kpis.total_revenue = 0
        /\ outcome.value.kpis.total_orders = 0
        /\ outcome.value.kpis.cancellation_rate.num =
               100 * outcome.value.kpis.cancellation_rate.den
        /\ outcome.value.by_state = <<>>
        /\ outcome.value.by_category = <<>>
        /\ outcome.value.by_month = <<>>
        /\ outcome.value.by_size = <<>>
        /\ outcome.value.top_performers.top_state = None
        /\ outcome.value.top_performers.top_category = None
        /\ outcome.value.top_performers.top_5_states = <<>>
        /\ outcome.value.top_performers.top_5_categories = <<>>

\* C5: when run_pipeline raises, no report has been emitted in that run:
\* neither the put_object of the report nor the local copy has happened.
C5_AllOrNothing ==
    (InPipeline /\ pc = "raised") =>
        /\ s3_object = None
        /\ local_file = None

ResponseKeys ==
    {"kpis", "regional_analytics", "category_performance", "monthly_trends"}

\* the success document, made after all four computations
IsSuccessDocument(r) ==
    /\ r.statusCode = 200
    /\ r.body.status = "success"
    /\ DOMAIN r.body.data = ResponseKeys
    /\ HandlerDone("respond")
    /\ r.body.data.kpis = kpis
    /\ r.body.data.regional_analytics = regional_data
    /\ r.body.data.category_performance = category_data
    /\ r.body.data.monthly_trends = monthly_trends

IsErrorEnvelope(r) ==
    /\ r.statusCode = 500
    /\ DOMAIN r.body = {"status", "message", "timestamp"}
    /\ r.body.status = "error"

\* C6: lambda_handler never raises; what it returns is either the success
\* document with kpis, regional_analytics, category_performance and
\* monthly_trends all computed, or the error envelope (status 'error',
\* message, timestamp); nothing is returned before that.
C6_HandlerResponse ==
    InHandler =>
        /\ pc /= "raised"
        /\ outcome.status /= "raised"
        /\ pc /= "returned" => response = None
        /\ pc = "returned" =>
              /\ outcome.status = "returned"
              /\ outcome.value = response
              /\ IsSuccessDocument(response) \/ IsErrorEnvelope(response)

\* a stage after the KPIs failed and the handler returned the error envelope
C6_Witness ==
    /\ InHandler
    /\ pc = "returned"
    /\ HandlerDone("get_regional_analytics")
    /\ IsErrorEnvelope(response)

\* C7: when put_object fails, the run makes no second put, the failure is
\* reported (the message load_to_s3 prints), and the run still completes
\* (the local file being writable): the local copy is written and the
\* report is returned.
C7_PublishFailure ==
    (PipelineDone("load_to_s3") /\ ~success) =>
        /\ s3_puts = 1
        /\ "Error uploading to S3" \in printed
        /\ (Finished /\ outcome.error /= "OSError") =>
              /\ outcome.status = "returned"
              /\ local_file = aggregated_data
              /\ outcome.value = aggregated_data

NoNull(rows) ==
    \A i \in DOMAIN rows : rows[i].Amount.kind = "num" /\ rows[i].Qty.kind = "num"

\* C8: after normalization no Amount or Qty is null (a missing or
\* non-numeric value is zero) in self.df and self.df_active of the pipeline
\* and in the table the handler passes to calculate_kpis and the get_*
\* aggregations, and the active and the cancelled rows are all the rows.
C8_NoNullAfterNormalization ==
    (PipelineDone("transform") \/ HandlerDone("normalize")) =>
        /\ InPipeline => NoNull(df.rows)
        /\ NoNull(df_active)
        /\ Len(df_active) + Len(SelectSeq(df.rows, IsCancelled)) = Len(df.rows)

\* C9: with at least one active record, average_order_value is total_revenue
\* over total_orders, in the pipeline and (rounded to 2 decimals) in the
\* handler, also when an active record has a missing or non-numeric Amount.
C9_AverageOrderValue ==
    (kpis /= None /\ Len(df_active) >= 1) =>
        /\ ~kpis.average_order_value.nan
        /\ InPipeline =>
              kpis.average_order_value.num * kpis.total_orders
                  = kpis.total_revenue * kpis.average_order_value.den
        /\ InHandler =>
              kpis.average_order_value
                  = Frac(Round2(kpis.total_revenue, kpis.total_orders), 100)

NonIncreasingRevenue(rows) ==
    \A i, j \in DOMAIN rows : i < j => rows[i].revenue >= rows[j].revenue

\* exactly the first min(n, Len(rows)) rows, in the same order
IsPrefix(top, rows, n) ==
    /\ Len(top) = (IF Len(rows) < n THEN Len(rows) ELSE n)
    /\ \A i \in DOMAIN top : top[i] = rows[i]

\* one row per key that is not missing among the active records
OneRowPerKey(keys, column) ==
    /\ \A i, j \in DOMAIN keys : i /= j => keys[i] /= keys[j]
    /\ Range(keys) = Range(column) \ {NA}

\* C10: by_state, by_category and by_size hold one row per distinct key in
\* non-increasing revenue order; top_state and top_category are the first
\* rows of by_state and by_category (absent when these are empty), and
\* top_5_states and top_5_categories are their first min(5, n) rows in order.
C10_RankingsArePrefixes ==
    (InPipeline /\ aggregated_data /= None) =>
        LET d == aggregated_data
            t == aggregated_data.top_performers
        IN  /\ OneRowPerKey([i \in DOMAIN d.by_state |-> d.by_state[i].state],
                            [i \in DOMAIN df_active |-> df_active[i].ship_state])
            /\ OneRowPerKey([i \in DOMAIN d.by_category |-> d.by_category[i].category],
                            [i \in DOMAIN df_active |-> df_active[i].Category])
            /\ OneRowPerKey([i \in DOMAIN d.by_size |-> d.by_size[i].size],
                            [i \in DOMAIN df_active |-> df_active[i].Size])
            /\ NonIncreasingRevenue(d.by_state)
            /\ NonIncreasingRevenue(d.by_category)
            /\ NonIncreasingRevenue(d.by_size)
            /\ IsPrefix(t.top_5_states, d.by_state, 5)
            /\ IsPrefix(t.top_5_categories, d.by_category, 5)
            /\ t.top_state = (IF d.by_state = <<>> THEN None ELSE d.by_state[1])
            /\ t.top_category =
                   (IF d.by_category = <<>> THEN None ELSE d.by_category[1])

\* a report with more than five states of different revenues and a full top 5
C10_Witness ==
    /\ InPipeline
    /\ pc = "returned"
    /\ Len(outcome.value.by_state) > 5
    /\ Len(outcome.value.by_category) > 5
    /\ Len(outcome.value.top_performers.top_5_states) = 5
    /\ outcome.value.by_state[1].revenue > outcome.value.by_state[6].revenue
    /\ outcome.value.by_state[1].state /= "AP"

RECURSIVE LeadingNumber(_, _)
\* the number written by the leading digits of str, after the digits read so far
LeadingNumber(str, acc) ==
    IF str = <<>> \/ Head(str) < 48 \/ Head(str) > 57 THEN acc
    ELSE LeadingNumber(Tail(str), acc * 10 + (Head(str) - 48))

RECURSIVE AfterDash(_)
\* what follows the first '-' of str
AfterDash(str) ==
    IF str = <<>> THEN <<>>
    ELSE IF Head(str) = 45 THEN Tail(str) ELSE AfterDash(Tail(str))

StartsWithDigit(str) == str /= <<>> /\ Head(str) >= 48 /\ Head(str) <= 57

\* the YearMonth label names a year and a month (it is not one of a missing cell)
HasYearMonth(row) ==
    StartsWithDigit(row.YearMonth) /\ StartsWithDigit(AfterDash(row.YearMonth))

LabelYear(row) == LeadingNumber(row.YearMonth, 0)

LabelMonth(row) == LeadingNumber(AfterDash(row.YearMonth), 0)

\* (y1, m1) is an earlier month than (y2, m2)
EarlierMonth(y1, m1, y2, m2) == y1 < y2 \/ (y1 = y2 /\ m1 < m2)

\* C11: the rows of by_month (aggregate_by_month) and of monthly_trends
\* (get_monthly_trends) are in ascending (year, month) order whatever their
\* revenue, and no (year, month) is the key of two rows.
C11_MonthlyOrder ==
    /\ PipelineDone("aggregate_by_month") =>
          \A i, j \in DOMAIN month_data :
              i < j => EarlierMonth(month_data[i].year, month_data[i].month,
                                    month_data[j].year, month_data[j].month)
    /\ HandlerDone("get_monthly_trends") =>
          \A i, j \in DOMAIN monthly_trends :
              (i < j /\ HasYearMonth(monthly_trends[i])
                     /\ HasYearMonth(monthly_trends[j])) =>
                  EarlierMonth(LabelYear(monthly_trends[i]), LabelMonth(monthly_trends[i]),
                               LabelYear(monthly_trends[j]), LabelMonth(monthly_trends[j]))

\* the part of C11 about aggregate_by_month
C11_ByMonthOrder ==
    PipelineDone("aggregate_by_month") =>
        \A i, j \in DOMAIN month_data :
            i < j => EarlierMonth(month_data[i].year, month_data[i].month,
                                  month_data[j].year, month_data[j].month)

\* the part of C11 about get_monthly_trends, for files with no missing Month
C11_TrendsOrderIntegerMonths ==
    (HandlerDone("get_monthly_trends")
        /\ \A i \in DOMAIN df.rows : df.rows[i].Month.kind = "num") =>
        \A i, j \in DOMAIN monthly_trends :
            i < j => EarlierMonth(LabelYear(monthly_trends[i]), LabelMonth(monthly_trends[i]),
                                  LabelYear(monthly_trends[j]), LabelMonth(monthly_trends[j]))

====
